---- MODULE Spec2Model ----
(***************************************************************************)
(* OusterDriver (os_driver_nodelet.cpp): the dispatcher that builds the    *)
(* packet handlers from the processor mask and the sensor metadata         *)
(* (create_publishers) and routes every raw packet to them                 *)
(* (on_lidar_packet_msg, on_imu_packet_msg).                               *)
(*                                                                         *)
(* The handlers themselves (LidarPacketHandler, ImuPacketHandler, the      *)
(* three scan processors, impl::parse_tokens) live in headers of the       *)
(* repository that are not part of the source tree at hand; they are       *)
(* modelled from the design document (sections 4.1, 4.3, 4.4, 4.5).        *)
(***************************************************************************)
EXTENDS Integers, Sequences, FiniteSets, TLC

\* ------------------------------------------------------------------ bounds
\* columns_per_revolution of the modelled sensor
Columns == 3
\* column blocks carried by one lidar packet
ColsPerPacket == 2
\* number of create_publishers runs explored
MaxReconfig == 2
\* largest beam count of the ring-clamping runs
MaxBeams == 64
\* largest hardware timestamp of the timestamp runs, in seconds
MaxSec == 40

\* ------------------------------------------------------- program constants
\* pnh.param("min_valid_columns_in_scan", 0)
DefaultMinValidColumns == 0
\* pnh.param("scan_ring", 0)
DefaultScanRing == 0
\* pnh.param("ptp_utc_tai_offset", -37.0), in seconds
DefaultPtpUtcTaiOffset == -37
\* the factor 1e+9 of static_cast<int64_t>(ptp_utc_tai_offset * 1e+9)
NsPerSec == 1000000000

\* ------------------------------------------------------------ token strings
\* strings are sequences of characters, so that parsing is a computation
TOK_IMU == <<"I", "M", "U">>
TOK_PCL == <<"P", "C", "L">>
TOK_SCAN == <<"S", "C", "A", "N">>
TOK_IMG == <<"I", "M", "G">>
Delim == "|"
Bar == <<Delim>>

\* pnh.param("proc_mask", std::string{"IMU|IMG|PCL|SCAN"})
DefaultProcMask == TOK_IMU \o Bar \o TOK_IMG \o Bar \o TOK_PCL \o Bar \o TOK_SCAN

\* impl::parse_tokens: std::getline over the string, one token per delimiter;
\* an empty token between two delimiters is kept, a trailing empty one is not
RECURSIVE parse_from(_, _, _, _, _)
parse_from(input, delim, i, cur, acc) ==
    IF i > Len(input)
    THEN IF cur = <<>> THEN acc ELSE acc \cup {cur}
    ELSE IF input[i] = delim
         THEN parse_from(input, delim, i + 1, <<>>, acc \cup {cur})
         ELSE parse_from(input, delim, i + 1, Append(cur, input[i]), acc)

parse_tokens(input, delim) == parse_from(input, delim, 1, <<>>, {})

\* impl::check_token: exact membership
check_token(tokens, token) == token \in tokens

\* ------------------------------------------------------------------ metadata
\* get_n_returns(info), get_beams_count(info)
get_n_returns(I) == I.n_returns
get_beams_count(I) == I.beams

\* ------------------------------------------------------------- timestamps
\* An int64_t count of nanoseconds is held as [hi, lo] with value
\* hi * 10^9 + lo and 0 <= lo < 10^9 (the model's integers have 32 bits).
NsBase == 1000000000

Ns(hi, lo) == [hi |-> hi + (lo \div NsBase), lo |-> lo % NsBase]

NsSub(a, b) == Ns(a.hi - b.hi, a.lo - b.lo)

\* x * k for an int x and a factor k up to 10^9
NsScale(x, k) == Ns(x * (k \div NsBase), x * (k % NsBase))

\* (mutant) the offset is scaled to microseconds
offset_to_ns_micro(ptp_utc_tai_offset) == NsScale(ptp_utc_tai_offset, 1000000)

\* static_cast<int64_t>(ptp_utc_tai_offset * 1e+9), for an offset of whole
\* seconds (the product is then exact in double)
offset_to_ns(ptp_utc_tai_offset) == NsScale(ptp_utc_tai_offset, NsPerSec)

\* the timestamp modes: the default std::string{}, the three recognized
\* modes, and a string that is none of them
TIME_FROM_INTERNAL_OSC == "TIME_FROM_INTERNAL_OSC"
TIME_FROM_ROS_TIME == "TIME_FROM_ROS_TIME"
TIME_FROM_PTP_1588 == "TIME_FROM_PTP_1588"
TimestampModes ==
    {"", TIME_FROM_INTERNAL_OSC, TIME_FROM_ROS_TIME, TIME_FROM_PTP_1588, "TIME_FROM_GPS"}

\* Timestamp Corrector (section 4.6): the host arrival time in host-time
\* mode, the hardware timestamp minus the offset in TAI-to-UTC mode, the
\* hardware timestamp in sensor-time mode and in every other mode
correct_timestamp(raw, host, mode, utc_tai_offset_ns) ==
    CASE mode = TIME_FROM_ROS_TIME -> host
      [] mode = TIME_FROM_PTP_1588 -> NsSub(raw, utc_tai_offset_ns)
      [] OTHER -> raw

\* hardware timestamps: zero, just below and above an offset of 37 s, each at
\* the start and at the end of its second
RawTimestamps ==
    {Ns(sec, nsec) : sec \in {0, MaxSec - 4, MaxSec}, nsec \in {5, 999999999}}

\* the host clock when a packet arrives
HostTime == Ns(MaxSec + 10, 7)

\* ------------------------------------------------------------- raw packets
\* A lidar packet: ColsPerPacket consecutive column blocks starting at column
\* `first` (wrapping at Columns), each block with its own decode status.
AllDecoded == [j \in 1 .. ColsPerPacket |-> TRUE]

\* every loss pattern with one sample value, and whole packets with the other
WellFormedLidar ==
    [len_ok : {TRUE}, first : 0 .. Columns - 1,
     ok : [1 .. ColsPerPacket -> BOOLEAN], val : {1}]
    \cup
    [len_ok : {TRUE}, first : 0 .. Columns - 1, ok : {AllDecoded}, val : {2}]

\* wrong length, or a column index outside 0 .. Columns - 1
MalformedLidar ==
    [len_ok : {FALSE}, first : 0 .. Columns - 1, ok : {AllDecoded}, val : {1}]
    \cup
    [len_ok : {TRUE}, first : {Columns}, ok : {AllDecoded}, val : {1}]

LidarPackets == WellFormedLidar \cup MalformedLidar

\* the packets of the reconfiguration runs: whole packets with one sample
\* value, one packet of wrong length, one with a column index out of range
FewLidarPackets ==
    {p \in LidarPackets :
        /\ p.val = 1
        /\ p.ok = AllDecoded
        /\ ~p.len_ok => p.first = 0}

\* an inertial packet: whether it decodes, its hardware timestamp, and the
\* host time of its arrival
ImuPackets == [ok : BOOLEAN, ts : RawTimestamps, host : {HostTime}]

NoImuPacket == [ok |-> FALSE, ts |-> Ns(0, 0), host |-> Ns(0, 0)]

\* the inertial packets of the other runs: one hardware timestamp
FewImuPackets == {p \in ImuPackets : p.ts = Ns(MaxSec, 5)}

NoPacket == [len_ok |-> FALSE, first |-> -1, ok |-> <<>>, val |-> 0]

\* ------------------------------------------- Scan Accumulator (section 4.3)
\* ScanState: per-column payload (0 = slot not filled), the count of columns
\* written, the column index the last packet was seen at, and (history) the
\* set of column indices decoded since the last emission.
EmptyScan ==
    [fill |-> [c \in 0 .. Columns - 1 |-> 0], count |-> 0, last |-> 0, seen |-> {}]

\* (mutant) only the length is looked at
Malformed_length_only(p) == ~p.len_ok

Malformed(p) == ~p.len_ok \/ p.first \notin 0 .. Columns - 1

\* column index of the j-th block of a packet
Col(p, j) == (p.first + j - 1) % Columns

\* a packet whose blocks wrap around the end of the revolution
Straddles(p) == \E j \in 2 .. ColsPerPacket : Col(p, j) < Col(p, j - 1)

\* revolution boundary: the column index decreases with respect to the last
\* seen one (first block), or wraps inside the packet (later blocks)
NewRevolution(st, p, j) ==
    IF j = 1 THEN Col(p, 1) < st.last ELSE Col(p, j) < Col(p, j - 1)

\* (mutant) every decoded block is counted, also into a filled slot
WriteColumn_counts_again(st, c, ok, val) ==
    IF ok
    THEN [st EXCEPT !.fill[c] = val, !.count = @ + 1, !.seen = @ \cup {c}]
    ELSE st

\* one column block: a block that decodes fills its slot; a slot that was
\* empty is counted, a filled one is overwritten
WriteColumn(st, c, ok, val) ==
    IF ok
    THEN [st EXCEPT !.fill[c] = val,
                    !.count = IF st.fill[c] = 0 THEN @ + 1 ELSE @,
                    !.seen = @ \cup {c}]
    ELSE st

\* (mutant) the slots are cleared, the count is kept
ResetScan_keeps_count(st) == [EmptyScan EXCEPT !.count = st.count]

\* Emit, steps (c) and (d): the state the triggering column is written into
ResetScan(st) == EmptyScan

\* (mutant) the block is written before the boundary is looked at: the
\* column that opens a revolution goes into the one it closes
ApplyColumn_write_first(acc, p, j) ==
    LET c == Col(p, j)
        boundary == NewRevolution(acc.st, p, j)
        written == WriteColumn(acc.st, c, p.ok[j], p.val)
    IN  [st |-> IF boundary
                THEN [ResetScan(written) EXCEPT !.last = c]
                ELSE [written EXCEPT !.last = IF j = 1 THEN c ELSE @],
         done |-> IF boundary THEN Append(acc.done, written) ELSE acc.done]

\* the blocks of a packet, in order; acc = [st, done] where done holds the
\* ScanStates of the revolutions this packet closed
\* one block: st is the accumulator, done the revolutions closed so far
ApplyColumn(acc, p, j) ==
    LET c == Col(p, j)
        boundary == NewRevolution(acc.st, p, j)
        opened == IF boundary THEN ResetScan(acc.st) ELSE acc.st
        marked == [opened EXCEPT !.last = IF j = 1 \/ boundary THEN c ELSE @]
    IN  [st |-> WriteColumn(marked, c, p.ok[j], p.val),
         done |-> IF boundary THEN Append(acc.done, acc.st) ELSE acc.done]

RECURSIVE ApplyColumns(_, _, _)
ApplyColumns(acc, p, j) ==
    IF j > ColsPerPacket
    THEN acc
    ELSE CHOOSE res \in {ApplyColumns(nxt, p, j + 1) : nxt \in {ApplyColumn(acc, p, j)}} : TRUE

\* one packet: a malformed packet is rejected as a whole
Accept(st, p) ==
    IF Malformed(p)
    THEN [st |-> st, done |-> <<>>]
    ELSE ApplyColumns([st |-> st, done |-> <<>>], p, 1)

\* ------------------------------------------------- processors and callbacks
Kinds == {"PCL", "SCAN", "IMG"}

NoHandler == [epoch |-> 0]

\* topic_for_return(base, i)
topic_for_return(base, i) == <<base, i>>

\* channel_field_topic_map_1, channel_field_topic_map_2: field -> topic
channel_field_topic_map_1 ==
    [f \in {"RANGE", "SIGNAL", "REFLECTIVITY", "NEAR_IR"} |->
        CASE f = "RANGE" -> "range_image"
          [] f = "SIGNAL" -> "signal_image"
          [] f = "REFLECTIVITY" -> "reflec_image"
          [] f = "NEAR_IR" -> "nearir_image"]

channel_field_topic_map_2 ==
    [f \in {"RANGE", "SIGNAL", "REFLECTIVITY", "NEAR_IR",
            "RANGE2", "SIGNAL2", "REFLECTIVITY2"} |->
        CASE f = "RANGE" -> "range_image"
          [] f = "SIGNAL" -> "signal_image"
          [] f = "REFLECTIVITY" -> "reflec_image"
          [] f = "NEAR_IR" -> "nearir_image"
          [] f = "RANGE2" -> "range_image2"
          [] f = "SIGNAL2" -> "signal_image2"
          [] f = "REFLECTIVITY2" -> "reflec_image2"]

\* auto which_map = num_returns == 1 ? &map_1 : &map_2
which_map(num_returns) ==
    IF num_returns = 1 THEN channel_field_topic_map_1 ELSE channel_field_topic_map_2

\* iteration order of a std::map keyed by channel field
ChanFieldOrder ==
    <<"RANGE", "RANGE2", "SIGNAL", "SIGNAL2", "REFLECTIVITY", "REFLECTIVITY2", "NEAR_IR">>

KeysInOrder(keys) == SelectSeq(ChanFieldOrder, LAMBDA f : f \in keys)

\* The OutputType a processor hands to its callback for a completed
\* revolution: num_valid_columns, and one message per return index (point
\* cloud, laser scan) or per channel field of the sensor's map (image).
BuildOutput(proc, st) ==
    [num_valid_columns |-> st.count,
     columns |-> st.seen,
     msgs |-> IF proc.kind = "IMG"
              THEN KeysInOrder(DOMAIN which_map(proc.n_returns))
              ELSE [i \in 1 .. proc.n_returns |-> i - 1]]

\* (mutant) the drop test with <= for <
Incomplete_or_equal(num_valid_columns, min_valid_columns_in_scan) ==
    num_valid_columns <= min_valid_columns_in_scan

\* the drop test of the three callbacks
Incomplete(num_valid_columns, min_valid_columns_in_scan) ==
    num_valid_columns < min_valid_columns_in_scan

\* (mutant) every sub-payload goes to the first publisher
PublishIndexed_first_sink(msgs) == [i \in 1 .. Len(msgs) |-> [sink |-> 0, msg |-> msgs[i]]]

\* lidar_pubs[i].publish(*data.pc_msgs[i]) for i in 0 .. size - 1
PublishIndexed(msgs) == [i \in 1 .. Len(msgs) |-> [sink |-> i - 1, msg |-> msgs[i]]]

\* image_pubs[it->first].publish(*it->second)
PublishKeyed(msgs) == [i \in 1 .. Len(msgs) |-> [sink |-> msgs[i], msg |-> msgs[i]]]

\* the point cloud callback
point_cloud_callback(min_valid_columns_in_scan, data) ==
    IF Incomplete(data.num_valid_columns, min_valid_columns_in_scan)
    THEN [pub |-> <<>>,
          warn |-> <<[got |-> data.num_valid_columns,
                      expected |-> min_valid_columns_in_scan]>>]
    ELSE [pub |-> PublishIndexed(data.msgs), warn |-> <<>>]

\* (mutant) the laser scan callback drops with <= where the others use <
laser_scan_callback_or_equal(min_valid_columns_in_scan, data) ==
    IF Incomplete_or_equal(data.num_valid_columns, min_valid_columns_in_scan)
    THEN [pub |-> <<>>, warn |-> <<>>]
    ELSE [pub |-> PublishIndexed(data.msgs), warn |-> <<>>]

\* the laser scan callback
laser_scan_callback(min_valid_columns_in_scan, data) ==
    IF Incomplete(data.num_valid_columns, min_valid_columns_in_scan)
    THEN [pub |-> <<>>, warn |-> <<>>]
    ELSE [pub |-> PublishIndexed(data.msgs), warn |-> <<>>]

\* the image callback
image_callback(min_valid_columns_in_scan, data) ==
    IF Incomplete(data.num_valid_columns, min_valid_columns_in_scan)
    THEN [pub |-> <<>>, warn |-> <<>>]
    ELSE [pub |-> PublishKeyed(data.msgs), warn |-> <<>>]

\* the closure a processor was created with
Callback(proc, data) ==
    CASE proc.kind = "PCL" -> point_cloud_callback(proc.min_valid_columns_in_scan, data)
      [] proc.kind = "SCAN" -> laser_scan_callback(proc.min_valid_columns_in_scan, data)
      [] proc.kind = "IMG" -> image_callback(proc.min_valid_columns_in_scan, data)

\* a processor: its kind, what its closure captured, and its accumulator
NewProcessor(kind, I, min_valid_columns_in_scan, ring) ==
    [kind |-> kind, n_returns |-> get_n_returns(I),
     min_valid_columns_in_scan |-> min_valid_columns_in_scan,
     ring |-> ring, st |-> EmptyScan]

RECURSIVE Concat(_)
Concat(ss) == IF ss = <<>> THEN <<>> ELSE Head(ss) \o Concat(Tail(ss))

PubsOf(calls) == Concat([i \in 1 .. Len(calls) |-> calls[i].pub])
WarnsOf(calls) == Concat([i \in 1 .. Len(calls) |-> calls[i].warn])

\* what one processor did with one packet: the outputs it built for the
\* revolutions the packet closed, what its callback published and reported,
\* and for each of those revolutions whether the callback published
RanOf(proc, datas, calls) ==
    [kind |-> proc.kind, datas |-> datas, pub |-> PubsOf(calls), warn |-> WarnsOf(calls),
     fwd |-> [i \in 1 .. Len(calls) |-> calls[i].pub /= <<>>]]

\* a processor after the accumulator result r: the revolutions r closed are
\* built into outputs and handed to the callback
Deliver(proc, r) ==
    LET datas == [i \in 1 .. Len(r.done) |-> BuildOutput(proc, r.done[i])]
    IN  [proc |-> [proc EXCEPT !.st = r.st],
         ran |-> RanOf(proc, datas, [i \in 1 .. Len(datas) |-> Callback(proc, datas[i])])]

\* one processor on one packet: the processor after it, and what it did
\* (the accumulator result is bound through a singleton set: evaluated once)
RunProcessor(proc, p) ==
    CHOOSE res \in {Deliver(proc, r) : r \in {Accept(proc.st, p)}} : TRUE

\* ---------------------------------------------------------- create_publishers
Min(a, b) == IF a < b THEN a ELSE b
Max(a, b) == IF a > b THEN a ELSE b

\* (mutant) the upper limit is beams_count
clamp_scan_ring_to_count(scan_ring, beams_count) == Min(Max(scan_ring, 0), beams_count)

\* scan_ring = std::min(std::max(scan_ring, 0), beams_count - 1)
clamp_scan_ring(scan_ring, beams_count) == Min(Max(scan_ring, 0), beams_count - 1)

\* if (scan_ring != pnh.param("scan_ring", 0)) NODELET_WARN_STREAM(...)
scan_ring_warned(scan_ring, requested) == scan_ring /= requested

\* which handlers a run of create_publishers assigns
builds_imu(tokens) == check_token(tokens, TOK_IMU)

\* (mutant) the lidar handler is assigned for the point cloud token only
builds_lidar_pcl_only(tokens) == check_token(tokens, TOK_PCL)

builds_lidar(tokens) ==
    check_token(tokens, TOK_PCL) \/ check_token(tokens, TOK_SCAN)
        \/ check_token(tokens, TOK_IMG)

\* std::vector<LidarScanProcessor> processors, in push_back order
build_processors(tokens, I, prm) ==
    (IF check_token(tokens, TOK_PCL)
     THEN <<NewProcessor("PCL", I, prm.min_valid_columns_in_scan, 0)>>
     ELSE <<>>)
    \o
    (IF check_token(tokens, TOK_SCAN)
     THEN <<NewProcessor("SCAN", I, prm.min_valid_columns_in_scan,
                         clamp_scan_ring(prm.scan_ring, get_beams_count(I)))>>
     ELSE <<>>)
    \o
    (IF check_token(tokens, TOK_IMG)
     THEN <<NewProcessor("IMG", I, prm.min_valid_columns_in_scan, 0)>>
     ELSE <<>>)

\* m: the members before the call; I: the metadata; prm: the parameters read;
\* ep: the number of this run. The result: the members after the call.
create_publishers(m, I, prm, ep) ==
    LET tokens == parse_tokens(prm.proc_mask, Delim)
        num_returns == get_n_returns(I)
    IN  [imu_pub |-> IF builds_imu(tokens) THEN <<"imu">> ELSE m.imu_pub,
         imu_packet_handler |->
             IF builds_imu(tokens)
             THEN [epoch |-> ep, info |-> I,
                   timestamp_mode |-> prm.timestamp_mode,
                   ptp_utc_tai_offset |-> offset_to_ns(prm.ptp_utc_tai_offset)]
             ELSE m.imu_packet_handler,
         lidar_pubs |->
             IF check_token(tokens, TOK_PCL)
             THEN [i \in 1 .. num_returns |-> topic_for_return("points", i - 1)]
             ELSE m.lidar_pubs,
         scan_pubs |->
             IF check_token(tokens, TOK_SCAN)
             THEN [i \in 1 .. num_returns |-> topic_for_return("scan", i - 1)]
             ELSE m.scan_pubs,
         image_pubs |->
             IF check_token(tokens, TOK_IMG)
             THEN which_map(num_returns) @@ m.image_pubs
             ELSE m.image_pubs,
         lidar_packet_handler |->
             IF builds_lidar(tokens)
             THEN [epoch |-> ep, info |-> I,
                   timestamp_mode |-> prm.timestamp_mode,
                   ptp_utc_tai_offset |-> offset_to_ns(prm.ptp_utc_tai_offset),
                   procs |-> build_processors(tokens, I, prm)]
             ELSE m.lidar_packet_handler,
         scan_ring_warn |->
             check_token(tokens, TOK_SCAN)
             /\ scan_ring_warned(clamp_scan_ring(prm.scan_ring, get_beams_count(I)),
                                 prm.scan_ring)]

\* ------------------------------------------------------------------- state
VARIABLES
    info,                  \* OusterSensor::info, the active metadata
    imu_pub,               \* ros::Publisher imu_pub (<<>>: not advertised)
    lidar_pubs,            \* std::vector<ros::Publisher> lidar_pubs
    scan_pubs,             \* std::vector<ros::Publisher> scan_pubs
    image_pubs,            \* std::map<ChanField, ros::Publisher> image_pubs
    imu_packet_handler,    \* ImuPacketHandler::HandlerType
    lidar_packet_handler,  \* LidarPacketHandler::HandlerType
    cfg,                   \* the parameters the last create_publishers read
    epoch,                 \* number of create_publishers runs so far
    last_lidar,            \* the lidar packet delivered last
    out                    \* what the last operation did (sink calls, reports)

members == <<imu_pub, lidar_pubs, scan_pubs, image_pubs,
             imu_packet_handler, lidar_packet_handler>>
vars == <<info, imu_pub, lidar_pubs, scan_pubs, image_pubs,
          imu_packet_handler, lidar_packet_handler, cfg, epoch, last_lidar, out>>

Members ==
    [imu_pub |-> imu_pub, lidar_pubs |-> lidar_pubs, scan_pubs |-> scan_pubs,
     image_pubs |-> image_pubs, imu_packet_handler |-> imu_packet_handler,
     lidar_packet_handler |-> lidar_packet_handler]

NoInfo == [n_returns |-> 0, beams |-> 0]
NoCfg ==
    [proc_mask |-> <<>>, min_valid_columns_in_scan |-> 0, scan_ring |-> 0,
     timestamp_mode |-> "", ptp_utc_tai_offset |-> 0]

\* the record of one operation: no processor ran, nothing was published
Quiet(ev) ==
    [ev |-> ev,
     ran |-> <<>>,
     lidar_epoch |-> 0,
     redelivered |-> FALSE,
     imu_fed |-> 0, imu_epoch |-> 0, imu_in |-> NoImuPacket, imu_out |-> <<>>,
     scan_ring_warn |-> FALSE]

Init ==
    /\ info = NoInfo
    /\ imu_pub = <<>>
    /\ lidar_pubs = <<>>
    /\ scan_pubs = <<>>
    /\ image_pubs = <<>>
    /\ imu_packet_handler = NoHandler
    /\ lidar_packet_handler = NoHandler
    /\ cfg = NoCfg
    /\ epoch = 0
    /\ last_lidar = NoPacket
    /\ out = Quiet("init")

\* ------------------------------------------------------------------ dispatch
\* if (lidar_packet_handler), if (imu_packet_handler): a std::function is set
has_handler(h) == h /= NoHandler

\* LidarPacketHandler: every processor it was created with gets the packet
lidar_handler_call(h, p) == [i \in 1 .. Len(h.procs) |-> RunProcessor(h.procs[i], p)]

\* ImuPacketHandler: one sensor_msgs::Imu per packet, stamped by the
\* Timestamp Corrector with the mode and the offset the handler was created
\* with; a packet that does not decode gives a message with no stamp
imu_handler_call(h, p) ==
    [decoded |-> p.ok,
     stamp |-> IF p.ok
               THEN correct_timestamp(p.ts, p.host, h.timestamp_mode, h.ptp_utc_tai_offset)
               ELSE Ns(0, 0)]

\* on_lidar_packet_msg: [m |-> the members after, out |-> what was done]
\* (rs is bound through a singleton set: evaluated once)
on_lidar_packet_msg(m, p) ==
    IF has_handler(m.lidar_packet_handler)
    THEN CHOOSE res \in
            { [m |-> [m EXCEPT !.lidar_packet_handler.procs =
                                  [i \in 1 .. Len(rs) |-> rs[i].proc]],
               out |-> [Quiet("lidar") EXCEPT
                           !.lidar_epoch = m.lidar_packet_handler.epoch,
                           !.ran = [i \in 1 .. Len(rs) |-> rs[i].ran]]] :
              rs \in {lidar_handler_call(m.lidar_packet_handler, p)} } : TRUE
    ELSE [m |-> m, out |-> Quiet("lidar")]

\* what on_imu_packet_msg does once the handler test has passed
imu_published(m, p) ==
    [m |-> m,
     out |-> [Quiet("imu") EXCEPT
         !.imu_fed = 1,
         !.imu_in = p,
         !.imu_epoch = m.imu_packet_handler.epoch,
         !.imu_out = <<imu_handler_call(m.imu_packet_handler, p)>>]]

\* (mutant) the handler is called without the test
on_imu_packet_msg_untested(m, p) == imu_published(m, p)

\* (mutant) the test looks at the lidar handler
on_imu_packet_msg_wrong_test(m, p) ==
    IF has_handler(m.lidar_packet_handler)
    THEN imu_published(m, p)
    ELSE [m |-> m, out |-> Quiet("imu")]

\* on_imu_packet_msg: imu_pub.publish(imu_packet_handler(raw_imu_packet))
on_imu_packet_msg(m, p) ==
    IF has_handler(m.imu_packet_handler)
    THEN imu_published(m, p)
    ELSE [m |-> m, out |-> Quiet("imu")]

\* ------------------------------------------------------------------ actions
SetMembers(m) ==
    /\ imu_pub' = m.imu_pub
    /\ lidar_pubs' = m.lidar_pubs
    /\ scan_pubs' = m.scan_pubs
    /\ image_pubs' = m.image_pubs
    /\ imu_packet_handler' = m.imu_packet_handler
    /\ lidar_packet_handler' = m.lidar_packet_handler

\* metadata and parameters of the reconfiguration runs
Masks ==
    { DefaultProcMask,
      TOK_IMU \o Bar \o TOK_PCL,
      TOK_IMU,
      TOK_SCAN \o Bar \o TOK_IMG,
      <<"i", "m", "u">> \o Bar \o TOK_PCL \o <<"X">> }

Thresholds == {DefaultMinValidColumns, Columns - 1}

MetaChoices == [n_returns : {1, 2}, beams : {2}]

ParamChoices ==
    [proc_mask : Masks, min_valid_columns_in_scan : Thresholds,
     scan_ring : {DefaultScanRing},
     timestamp_mode : {""}, ptp_utc_tai_offset : {DefaultPtpUtcTaiOffset}]

\* metadata and parameters of the single-configuration runs
ScanMetaChoices == [n_returns : {2}, beams : {2}]

ScanParamChoices ==
    [proc_mask : {DefaultProcMask},
     min_valid_columns_in_scan :
         {DefaultMinValidColumns - 1, DefaultMinValidColumns, Columns - 1, Columns + 1},
     scan_ring : {DefaultScanRing},
     timestamp_mode : {""}, ptp_utc_tai_offset : {DefaultPtpUtcTaiOffset}]

\* A SensorMetadata arrival: on_metadata_updated(info), then create_publishers
\* with the parameters the node handle holds at that moment.
MetadataFrom(MetaSet, ParamSet) ==
    \E I \in MetaSet, prm \in ParamSet :
        /\ epoch < MaxReconfig
        /\ LET r == create_publishers(Members, I, prm, epoch + 1)
           IN  /\ SetMembers(r)
               /\ out' = [Quiet("config") EXCEPT !.scan_ring_warn = r.scan_ring_warn]
               /\ last_lidar' =
                      IF r.lidar_packet_handler = lidar_packet_handler
                      THEN last_lidar ELSE NoPacket
        /\ info' = I
        /\ cfg' = prm
        /\ epoch' = epoch + 1

\* a lidar datagram arrives
LidarFrom(PacketSet) ==
    \E p \in PacketSet :
        \E r \in {on_lidar_packet_msg(Members, p)} :
            /\ SetMembers(r.m)
            /\ out' = [r.out EXCEPT !.redelivered =
                                       has_handler(lidar_packet_handler) /\ p = last_lidar]
            /\ last_lidar' = IF has_handler(lidar_packet_handler) THEN p ELSE last_lidar
            /\ UNCHANGED <<info, cfg, epoch>>

\* an inertial datagram arrives
ImuFrom(PacketSet) ==
    \E p \in PacketSet :
        LET r == on_imu_packet_msg(Members, p)
        IN  /\ SetMembers(r.m)
            /\ out' = r.out
            /\ UNCHANGED <<info, cfg, epoch, last_lidar>>

MetadataUpdated == MetadataFrom(MetaChoices, ParamChoices)
ImuPacket == ImuFrom(FewImuPackets)
LidarPacket == LidarFrom(FewLidarPackets)

Next == MetadataUpdated \/ LidarPacket \/ ImuPacket

Spec == Init /\ [][Next]_vars

\* one configuration, then every packet sequence
ConfigureOnce == epoch = 0 /\ MetadataFrom(ScanMetaChoices, ScanParamChoices)
LidarPacketAny == LidarFrom(LidarPackets)

NextScan == ConfigureOnce \/ LidarPacketAny \/ ImuPacket

SpecScan == Init /\ [][NextScan]_vars

\* one configuration of a laser scan processor, over every beam count and
\* every requested ring around the valid range
RingMetaChoices == [n_returns : {1}, beams : 1 .. MaxBeams]

RingParamChoices ==
    [proc_mask : {TOK_SCAN}, min_valid_columns_in_scan : {DefaultMinValidColumns},
     scan_ring : -2 .. MaxBeams + 1,
     timestamp_mode : {""}, ptp_utc_tai_offset : {DefaultPtpUtcTaiOffset}]

ConfigureRing == epoch = 0 /\ MetadataFrom(RingMetaChoices, RingParamChoices)

NextRing == ConfigureRing

SpecRing == Init /\ [][NextRing]_vars

\* one configuration of the IMU handler, over every timestamp mode and a few
\* offsets, then inertial packets with every hardware timestamp
TimeMetaChoices == [n_returns : {1}, beams : {2}]

OffsetChoices == {DefaultPtpUtcTaiOffset, 0, 1, 37}

TimeParamChoices ==
    [proc_mask : {TOK_IMU}, min_valid_columns_in_scan : {DefaultMinValidColumns},
     scan_ring : {DefaultScanRing},
     timestamp_mode : TimestampModes, ptp_utc_tai_offset : OffsetChoices]

ConfigureTime == epoch = 0 /\ MetadataFrom(TimeMetaChoices, TimeParamChoices)
ImuPacketTimed == ImuFrom(ImuPackets)

NextTime == ConfigureTime \/ ImuPacketTimed

SpecTime == Init /\ [][NextTime]_vars

\* ------------------------------------------------------------------ claims
TokenOf(k) ==
    CASE k = "PCL" -> TOK_PCL
      [] k = "SCAN" -> TOK_SCAN
      [] k = "IMG" -> TOK_IMG

\* the spatial processors a mask enables
EnabledKinds(mask) == {k \in Kinds : TokenOf(k) \in parse_tokens(mask, Delim)}

\* the sinks of a processor kind on a sensor with n returns
SinksOf(kind, n) == IF kind = "IMG" THEN DOMAIN which_map(n) ELSE 0 .. n - 1

\* how often sink s was called in a sequence of publish calls
Times(pub, s) == Cardinality({j \in 1 .. Len(pub) : pub[j].sink = s})

\* the processors that ran on the last packet
Ran == 1 .. Len(out.ran)

\* C1: for every enabled spatial processor and every revolution a lidar packet
\* completes, a frame with fewer valid columns than the configured
\* min_valid_columns_in_scan reaches no sink of that processor, and a frame with
\* at least that many reaches every sink of the processor exactly once.
C1_ValidatorDelivery ==
    (out.ev = "lidar" /\ has_handler(lidar_packet_handler)) =>
        /\ {out.ran[i].kind : i \in Ran} = EnabledKinds(cfg.proc_mask)
        /\ \A i \in Ran :
              LET rn == out.ran[i]
                  passed == {j \in 1 .. Len(rn.datas) :
                                rn.datas[j].num_valid_columns
                                    >= cfg.min_valid_columns_in_scan}
                  sinks == SinksOf(rn.kind, info.n_returns)
              IN  /\ \A s \in sinks : Times(rn.pub, s) = Cardinality(passed)
                  /\ Len(rn.pub) = Cardinality(passed) * Cardinality(sinks)

\* a revolution with exactly the threshold's number of valid columns was
\* forwarded by all three processors
C1_Witness ==
    /\ out.ev = "lidar"
    /\ cfg.min_valid_columns_in_scan > 0
    /\ Len(out.ran) = 3
    /\ \A i \in Ran :
          /\ Len(out.ran[i].datas) = 1
          /\ out.ran[i].datas[1].num_valid_columns = cfg.min_valid_columns_in_scan
          /\ out.ran[i].pub /= <<>>

\* a revolution below the threshold was dropped by all three processors
C1_WitnessDropped ==
    /\ out.ev = "lidar"
    /\ Len(out.ran) = 3
    /\ \A i \in Ran :
          /\ Len(out.ran[i].datas) = 1
          /\ out.ran[i].datas[1].num_valid_columns > 0
          /\ out.ran[i].datas[1].num_valid_columns < cfg.min_valid_columns_in_scan
          /\ out.ran[i].pub = <<>>

\* C2: the valid_column_count of every emitted frame lies in
\* 0 .. columns_per_revolution and is the number of distinct column indices
\* decoded since the previous emission.
C2_ValidColumnCount ==
    \A i \in Ran : \A j \in 1 .. Len(out.ran[i].datas) :
        LET d == out.ran[i].datas[j]
        IN  /\ d.num_valid_columns \in 0 .. Columns
            /\ d.num_valid_columns = Cardinality(d.columns)

\* a frame with every column of its revolution decoded was emitted
C2_Witness ==
    \E i \in Ran :
        /\ Len(out.ran[i].datas) = 1
        /\ out.ran[i].datas[1].num_valid_columns = Columns

C3_RedeliveryAnyPacket ==
    [][(out'.ev = "lidar" /\ out'.redelivered /\ ~Malformed(last_lidar'))
       => /\ lidar_packet_handler' = lidar_packet_handler
          /\ \A i \in 1 .. Len(out'.ran) : out'.ran[i].datas = <<>>]_vars

C4_SubPayloadPerReturn ==
    (out.ev = "lidar" /\ has_handler(lidar_packet_handler)) =>
        \A i \in Ran :
            LET rn == out.ran[i]
                n == lidar_packet_handler.info.n_returns
            IN  rn.kind \in {"PCL", "SCAN"} =>
                  /\ \A j \in 1 .. Len(rn.datas) : Len(rn.datas[j].msgs) = n
                  /\ rn.pub /= <<>> =>
                        /\ Len(rn.pub) = n
                        /\ \A r \in 0 .. n - 1 : rn.pub[r + 1] = [sink |-> r, msg |-> r]

\* a dual-return point cloud and a dual-return laser scan were forwarded
C4_Witness ==
    /\ out.ev = "lidar"
    /\ has_handler(lidar_packet_handler)
    /\ lidar_packet_handler.info.n_returns = 2
    /\ \E i \in Ran : out.ran[i].kind = "PCL" /\ Len(out.ran[i].pub) = 2
    /\ \E i \in Ran : out.ran[i].kind = "SCAN" /\ Len(out.ran[i].pub) = 2

\* the spatial processors the lidar handler holds
BuiltKinds ==
    IF has_handler(lidar_packet_handler)
    THEN {lidar_packet_handler.procs[i].kind : i \in 1 .. Len(lidar_packet_handler.procs)}
    ELSE {}

\* C5: after create_publishers has read a mask, a processor kind is held by a
\* handler, and is invoked by a packet, if and only if its token is in that
\* mask.
C5_MaskDecidesProcessors ==
    epoch > 0 =>
        /\ has_handler(imu_packet_handler) <=> TOK_IMU \in parse_tokens(cfg.proc_mask, Delim)
        /\ BuiltKinds = EnabledKinds(cfg.proc_mask)
        /\ {out.ran[i].kind : i \in Ran} \subseteq EnabledKinds(cfg.proc_mask)
        /\ out.imu_fed > 0 => TOK_IMU \in parse_tokens(cfg.proc_mask, Delim)

\* the same statement for the first configuration of a session only
C5_FirstConfiguration == epoch = 1 => C5_MaskDecidesProcessors

\* C6: after every reconfiguration the handlers are those of the mask read in
\* it and were all built by it, their accumulators start empty, and no packet
\* goes to a handler an earlier configuration built.
C6_ReconfigurationRebuildsAll ==
    epoch > 0 =>
        /\ has_handler(imu_packet_handler) => imu_packet_handler.epoch = epoch
        /\ has_handler(lidar_packet_handler) => lidar_packet_handler.epoch = epoch
        /\ out.ev = "config" =>
              /\ has_handler(imu_packet_handler)
                    <=> TOK_IMU \in parse_tokens(cfg.proc_mask, Delim)
              /\ BuiltKinds = EnabledKinds(cfg.proc_mask)
              /\ has_handler(lidar_packet_handler) =>
                    \A i \in 1 .. Len(lidar_packet_handler.procs) :
                        lidar_packet_handler.procs[i].st = EmptyScan
        /\ out.lidar_epoch \in {0, epoch}
        /\ out.imu_epoch \in {0, epoch}

\* no handler has been assigned yet
NoPipeline == ~has_handler(lidar_packet_handler) /\ ~has_handler(imu_packet_handler)

\* C7: while no handler has been built, a lidar or inertial packet calls no
\* sink and changes nothing of the driver.
C7_NoPipelineNoOp ==
    [][(NoPipeline /\ out'.ev \in {"lidar", "imu"})
       => /\ UNCHANGED <<members, info, cfg, epoch>>
          /\ out' = Quiet(out'.ev)]_vars

\* an inertial packet was dispatched after a configuration that built nothing
C7_Witness == NoPipeline /\ epoch > 0 /\ out.ev = "imu"

\* C8: a lidar packet goes once to each processor of the lidar handler and
\* never to the IMU handler; an inertial packet goes once to the IMU handler if
\* there is one and never to a processor, and leaves every accumulator alone.
C8_RoutingByKind ==
    [][/\ out'.ev = "lidar" =>
            /\ out'.imu_fed = 0 /\ out'.imu_out = <<>>
            /\ imu_packet_handler' = imu_packet_handler
            /\ Len(out'.ran) =
                  IF has_handler(lidar_packet_handler)
                  THEN Len(lidar_packet_handler.procs) ELSE 0
            /\ \A i \in 1 .. Len(out'.ran) :
                  out'.ran[i].kind = lidar_packet_handler.procs[i].kind
       /\ out'.ev = "imu" =>
            /\ out'.ran = <<>>
            /\ lidar_packet_handler' = lidar_packet_handler
            /\ out'.imu_fed = IF has_handler(imu_packet_handler) THEN 1 ELSE 0
            /\ Len(out'.imu_out) = out'.imu_fed]_vars

\* an inertial packet arrived in the middle of a revolution while the lidar
\* handler held processors and there was no IMU handler
C8_Witness ==
    /\ out.ev = "imu"
    /\ ~has_handler(imu_packet_handler)
    /\ has_handler(lidar_packet_handler)
    /\ \E i \in 1 .. Len(lidar_packet_handler.procs) :
          lidar_packet_handler.procs[i].st.count > 0

\* the laser scan processor of the lidar handler
ScanProcessors ==
    {lidar_packet_handler.procs[i] : i \in
        {j \in 1 .. Len(lidar_packet_handler.procs) :
            lidar_packet_handler.procs[j].kind = "SCAN"}}

\* C9: the ring the laser scan processor is created with lies in
\* 0 .. beam_count - 1, is the requested ring when that is in the range, 0 when
\* it is below and beam_count - 1 when it is above; the clamping is reported if
\* and only if the ring differs from the requested one. On 64 beams -1 gives 0
\* and 64 gives 63, both reported.
C9_RingClamped ==
    (out.ev = "config" /\ has_handler(lidar_packet_handler)) =>
        \A proc \in ScanProcessors :
            LET r == cfg.scan_ring
                n == info.beams
            IN  /\ proc.ring \in 0 .. n - 1
                /\ r \in 0 .. n - 1 => proc.ring = r
                /\ r < 0 => proc.ring = 0
                /\ r > n - 1 => proc.ring = n - 1
                /\ out.scan_ring_warn <=> proc.ring /= r
                /\ (n = 64 /\ r = -1) => (proc.ring = 0 /\ out.scan_ring_warn)
                /\ (n = 64 /\ r = 64) => (proc.ring = 63 /\ out.scan_ring_warn)

\* ring 64 was requested on a 64-beam sensor: ring 63 is used and reported
C9_Witness ==
    /\ out.ev = "config"
    /\ has_handler(lidar_packet_handler)
    /\ info.beams = 64
    /\ cfg.scan_ring = 64
    /\ \E proc \in ScanProcessors : proc.ring = 63
    /\ out.scan_ring_warn

\* the index of the block of packet p that opened the new revolution
OpeningBlock(p) ==
    IF Straddles(p)
    THEN CHOOSE j \in 2 .. ColsPerPacket : Col(p, j) < Col(p, j - 1)
    ELSE 1

\* C10: when a packet closes a revolution, forwarded or dropped, the
\* accumulator afterwards holds exactly the columns of that packet from the
\* block that opened the new revolution on: nothing of the closed revolution is
\* left, and nothing of the triggering packet is lost.
C10_ResetThenAccumulate ==
    (out.ev = "lidar" /\ has_handler(lidar_packet_handler)) =>
        \A i \in Ran :
            out.ran[i].datas /= <<>> =>
                LET p == last_lidar
                    st == lidar_packet_handler.procs[i].st
                    fresh == {Col(p, j) : j \in
                                 {b \in OpeningBlock(p) .. ColsPerPacket : p.ok[b]}}
                IN  /\ st.seen = fresh
                    /\ st.count = Cardinality(fresh)
                    /\ \A c \in 0 .. Columns - 1 :
                          st.fill[c] = IF c \in fresh THEN p.val ELSE 0

\* a frame was dropped by the validator, and the accumulator already counts
\* the columns of the packet that closed the revolution
C10_Witness ==
    /\ out.ev = "lidar"
    /\ has_handler(lidar_packet_handler)
    /\ \E i \in Ran :
          /\ out.ran[i].datas /= <<>>
          /\ out.ran[i].datas[1].num_valid_columns > 0
          /\ out.ran[i].pub = <<>>
          /\ lidar_packet_handler.procs[i].st.count > 0

\* C11: a malformed lidar packet (wrong length, or a column index out of
\* range) leaves every accumulator and every other member of the driver as it
\* was, closes no revolution and publishes nothing; what a later packet does
\* depends on the members only, so it is processed as without the malformed
\* one.
C11_MalformedRejected ==
    [][(/\ out'.ev = "lidar"
        /\ has_handler(lidar_packet_handler)
        /\ (~last_lidar'.len_ok \/ last_lidar'.first \notin 0 .. Columns - 1))
       => /\ UNCHANGED <<members, info, cfg, epoch>>
          /\ Len(out'.ran) = Len(lidar_packet_handler.procs)
          /\ \A i \in 1 .. Len(out'.ran) :
                /\ out'.ran[i].datas = <<>>
                /\ out'.ran[i].pub = <<>>]_vars

\* a packet with a column index out of range arrived in the middle of a
\* revolution
C11_Witness ==
    /\ out.ev = "lidar"
    /\ has_handler(lidar_packet_handler)
    /\ last_lidar.len_ok
    /\ last_lidar.first = Columns
    /\ \A i \in 1 .. Len(lidar_packet_handler.procs) :
          lidar_packet_handler.procs[i].st.count > 0

\* the frames of a processor run that lie below the threshold
Dropped(rn) ==
    {j \in 1 .. Len(rn.datas) :
        rn.datas[j].num_valid_columns < cfg.min_valid_columns_in_scan}

\* every dropped frame of the run is reported, with the observed and the
\* expected column count
DropsWarned(rn) ==
    /\ Len(rn.warn) = Cardinality(Dropped(rn))
    /\ \A j \in Dropped(rn) :
          \E w \in 1 .. Len(rn.warn) :
              rn.warn[w] = [got |-> rn.datas[j].num_valid_columns,
                            expected |-> cfg.min_valid_columns_in_scan]

\* C12: every frame a validator drops for having fewer valid columns than the
\* threshold is reported as a warning carrying the observed and the expected
\* column count, by the point cloud, the laser scan and the image processor
\* alike.
C12_DropsWarned ==
    (out.ev = "lidar" /\ has_handler(lidar_packet_handler)) =>
        \A i \in Ran : DropsWarned(out.ran[i])

\* the same statement for the point cloud processor alone
C12_PointCloudDropsWarned ==
    (out.ev = "lidar" /\ has_handler(lidar_packet_handler)) =>
        \A i \in Ran : out.ran[i].kind = "PCL" => DropsWarned(out.ran[i])

\* the channel fields of a sensor with n returns
FieldsOfReturns(n) ==
    IF n = 1
    THEN {"RANGE", "SIGNAL", "REFLECTIVITY", "NEAR_IR"}
    ELSE {"RANGE", "SIGNAL", "REFLECTIVITY", "NEAR_IR",
          "RANGE2", "SIGNAL2", "REFLECTIVITY2"}

\* C13: while the image processor is enabled, the image sinks the driver holds
\* are those of the return count of the active metadata: the 4 fields RANGE,
\* SIGNAL, REFLECTIVITY, NEAR_IR for one return, these and RANGE2, SIGNAL2,
\* REFLECTIVITY2 for two; also after a change from two returns to one.
C13_ImageSinksByReturnCount ==
    (epoch > 0 /\ "IMG" \in EnabledKinds(cfg.proc_mask)) =>
        /\ DOMAIN image_pubs = FieldsOfReturns(info.n_returns)
        /\ Cardinality(DOMAIN image_pubs) = IF info.n_returns = 1 THEN 4 ELSE 7

\* the same statement for the first configuration of a session only
C13_FirstConfiguration == epoch = 1 => C13_ImageSinksByReturnCount

\* the sample of the last inertial packet
ImuSample == out.imu_out[1]

\* C14: the stamp of an inertial sample is defined for every hardware
\* timestamp and every mode string: the hardware timestamp in sensor-time mode
\* and in an unrecognized mode, the hardware timestamp minus the offset in
\* TAI-to-UTC mode, where the offset in nanoseconds is the configured seconds
\* times 10^9; with an offset of 37 s that is the hardware timestamp less
\* 37,000,000,000 ns.
C14_TimestampCorrected ==
    (out.ev = "imu" /\ has_handler(imu_packet_handler) /\ out.imu_in.ok) =>
        LET raw == out.imu_in.ts
            mode == cfg.timestamp_mode
            sec == cfg.ptp_utc_tai_offset
        IN  /\ ImuSample.stamp.hi \in Int
            /\ ImuSample.stamp.lo \in 0 .. 999999999
            /\ imu_packet_handler.ptp_utc_tai_offset = [hi |-> sec, lo |-> 0]
            /\ mode \in {"", "TIME_FROM_INTERNAL_OSC", "TIME_FROM_GPS"} =>
                  ImuSample.stamp = raw
            /\ mode = "TIME_FROM_PTP_1588" =>
                  ImuSample.stamp = [hi |-> raw.hi - sec, lo |-> raw.lo]
            /\ (mode = "TIME_FROM_PTP_1588" /\ sec = 37) =>
                  ImuSample.stamp = [hi |-> raw.hi - 37, lo |-> raw.lo]

\* an inertial packet was stamped in TAI-to-UTC mode with an offset of 37 s
C14_Witness ==
    /\ out.ev = "imu"
    /\ has_handler(imu_packet_handler)
    /\ out.imu_in.ok
    /\ cfg.timestamp_mode = "TIME_FROM_PTP_1588"
    /\ cfg.ptp_utc_tai_offset = 37
    /\ out.imu_in.ts = [hi |-> MaxSec, lo |-> 5]
    /\ ImuSample.stamp = [hi |-> MaxSec - 37, lo |-> 5]

\* C15: with the IMU handler built, an inertial packet that decodes gives
\* exactly one inertial sample to the IMU sink, and one that is structurally
\* malformed gives none.
C15_ImuSamplePerPacket ==
    (out.ev = "imu" /\ has_handler(imu_packet_handler)) =>
        Len(out.imu_out) = IF out.imu_in.ok THEN 1 ELSE 0

\* the same statement for the packets that decode only
C15_WellFormedOnly ==
    (out.ev = "imu" /\ has_handler(imu_packet_handler) /\ out.imu_in.ok) =>
        Len(out.imu_out) = 1

\* the decoded columns of blocks lo .. hi of packet p
DecodedCols(p, lo, hi) == {Col(p, j) : j \in {b \in lo .. hi : p.ok[b]}}

\* C16: a packet whose blocks wrap around the end of the revolution is applied
\* block by block: the frame of the revolution it closes holds the columns
\* decoded before plus the packet's columns up to the wrap, counted once each,
\* and the accumulator afterwards holds exactly the packet's columns from the
\* wrap on; none is lost, none goes to the other revolution.
C16_StraddlingPacket ==
    [][(/\ out'.ev = "lidar"
        /\ has_handler(lidar_packet_handler)
        /\ last_lidar'.len_ok
        /\ last_lidar'.first \in 0 .. Columns - 1
        /\ Straddles(last_lidar'))
       => \A i \in 1 .. Len(out'.ran) :
             LET p == last_lidar'
                 old == lidar_packet_handler.procs[i].st
                 new == lidar_packet_handler'.procs[i].st
                 frames == out'.ran[i].datas
                 k == OpeningBlock(p)
                 before == DecodedCols(p, 1, k - 1)
                 after == DecodedCols(p, k, ColsPerPacket)
                 \* the first block already lies before the last seen column
                 early == Col(p, 1) < old.last
                 closed == (IF early THEN {} ELSE old.seen) \cup before
             IN  /\ Len(frames) = IF early THEN 2 ELSE 1
                 /\ early => frames[1].columns = old.seen
                 /\ frames[Len(frames)].columns = closed
                 /\ frames[Len(frames)].num_valid_columns = Cardinality(closed)
                 /\ new.seen = after
                 /\ new.count = Cardinality(after)
                 /\ \A c \in 0 .. Columns - 1 :
                       new.fill[c] = IF c \in after THEN p.val ELSE 0]_vars

\* a packet wrapped around the end of a revolution that already held columns:
\* its first column went into the closed frame, its last into the new one
C16_Witness ==
    /\ out.ev = "lidar"
    /\ has_handler(lidar_packet_handler)
    /\ ~Malformed(last_lidar)
    /\ Straddles(last_lidar)
    /\ last_lidar.ok = AllDecoded
    /\ \A i \in Ran :
          /\ Len(out.ran[i].datas) = 1
          /\ Col(last_lidar, 1) \in out.ran[i].datas[1].columns
          /\ out.ran[i].datas[1].num_valid_columns > 1
          /\ Col(last_lidar, ColsPerPacket) \in lidar_packet_handler.procs[i].st.seen

\* C17: for every revolution a lidar packet completes, the processors of the
\* lidar handler all forward its frame or all drop it: none publishes the
\* frame of a revolution that another one drops.
C17_SameDecision ==
    (out.ev = "lidar" /\ has_handler(lidar_packet_handler)) =>
        \A i \in Ran : \A j \in Ran :
            /\ Len(out.ran[i].datas) = Len(out.ran[j].datas)
            /\ out.ran[i].fwd = out.ran[j].fwd

\* three processors ran on a revolution that held exactly the threshold's
\* number of valid columns, and all three forwarded it
C17_Witness ==
    /\ out.ev = "lidar"
    /\ has_handler(lidar_packet_handler)
    /\ cfg.min_valid_columns_in_scan > 0
    /\ {out.ran[i].kind : i \in Ran} = Kinds
    /\ \A i \in Ran :
          /\ out.ran[i].fwd = <<TRUE>>
          /\ out.ran[i].datas[1].num_valid_columns = cfg.min_valid_columns_in_scan

\* three processors ran on a revolution below the threshold, and all three
\* dropped it
C17_WitnessDropped ==
    /\ out.ev = "lidar"
    /\ has_handler(lidar_packet_handler)
    /\ {out.ran[i].kind : i \in Ran} = Kinds
    /\ \A i \in Ran : out.ran[i].fwd = <<FALSE>>

\* C18: whenever a point cloud or laser scan callback publishes sub-payload
\* i, the publisher vector it indexes holds more than i publishers at that
\* moment, whatever configurations came before.
C18_PublishIndexInBounds ==
    (out.ev = "lidar" /\ has_handler(lidar_packet_handler)) =>
        \A i \in Ran : \A j \in 1 .. Len(out.ran[i].pub) :
            /\ out.ran[i].kind = "PCL" =>
                  out.ran[i].pub[j].sink \in 0 .. Len(lidar_pubs) - 1
            /\ out.ran[i].kind = "SCAN" =>
                  out.ran[i].pub[j].sink \in 0 .. Len(scan_pubs) - 1

\* after a change from two returns to one that rebuilt the laser scan
\* publishers only, a laser scan was published
C18_Witness ==
    /\ out.ev = "lidar"
    /\ has_handler(lidar_packet_handler)
    /\ epoch >= 2
    /\ Len(scan_pubs) < Len(lidar_pubs)
    /\ \E i \in Ran : out.ran[i].kind = "SCAN" /\ out.ran[i].pub /= <<>>

\* C19: with a threshold of 0 or less no frame is dropped: every revolution a
\* lidar packet completes is published once to every sink of every processor,
\* a revolution without any valid column included.
C19_NoDropAtDefault ==
    (/\ out.ev = "lidar"
     /\ has_handler(lidar_packet_handler)
     /\ cfg.min_valid_columns_in_scan <= 0) =>
        /\ {out.ran[i].kind : i \in Ran} = EnabledKinds(cfg.proc_mask)
        /\ \A i \in Ran :
              /\ \A k \in 1 .. Len(out.ran[i].fwd) : out.ran[i].fwd[k]
              /\ out.ran[i].warn = <<>>
              /\ \A s \in SinksOf(out.ran[i].kind, info.n_returns) :
                    Times(out.ran[i].pub, s) = Len(out.ran[i].datas)

\* with the default threshold 0, a revolution without any valid column was
\* closed and published by all three processors
C19_Witness ==
    /\ out.ev = "lidar"
    /\ has_handler(lidar_packet_handler)
    /\ cfg.min_valid_columns_in_scan = 0
    /\ {out.ran[i].kind : i \in Ran} = Kinds
    /\ \A i \in Ran :
          /\ Len(out.ran[i].datas) = 1
          /\ out.ran[i].datas[1].num_valid_columns = 0
          /\ out.ran[i].pub /= <<>>

\* the same with a threshold below 0
C19_WitnessNegative ==
    /\ out.ev = "lidar"
    /\ has_handler(lidar_packet_handler)
    /\ cfg.min_valid_columns_in_scan < 0
    /\ \A i \in Ran :
          /\ Len(out.ran[i].datas) = 1
          /\ out.ran[i].datas[1].num_valid_columns = 0
          /\ out.ran[i].pub /= <<>>

====
